---- MODULE Spec2Model ----
(***************************************************************************)
(* Beam-profile analysis functions of cam_server                           *)
(* (cam_server/pipeline/data_processing/functions.py).                     *)
(*                                                                         *)
(* Every function is stateless: a behaviour is one call.  Init draws the   *)
(* arguments of the call, the actions are the steps of the function body,  *)
(* and the last step stores what the function returns (or the exception    *)
(* it raises).  There is one specification per function.                   *)
(*                                                                         *)
(* Numbers.  Axis values, pixel values and indexes are integers.  Values   *)
(* the code computes by a true division are kept as exact fractions        *)
(* <<num, den>> with den > 0 and are only ever compared, so no rounding is *)
(* modelled.  Indexes are 0-based as in the source; At(s, i) reads s[i].   *)
(***************************************************************************)
EXTENDS Integers, Sequences, FiniteSets

VARIABLES
    pc,                   \* position inside the function that is called
    raised,               \* the exception the call raised, "None" if none
    axis,                 \* find_index / calculate_slices / gauss_fit: axis
    item,                 \* find_index: the value looked up, <<num, den>>
    index,                \* find_index: the returned index
    center,               \* calculate_slices arguments
    standard_deviation,
    scaling,
    number_of_slices,
    index_center,         \* calculate_slices locals
    n_pixel_half_slice,
    start_index,
    end_index,
    list_slices_indexes,
    slice_length,
    counter_slices,
    image,                \* subtract_background: image, a record of dtype and data
    background_image,     \* subtract_background: background, dtype and data
    original_image,       \* subtract_background: the image data as passed in
    profile,              \* gauss_fit / get_good_region_profile: profile
    seed,                 \* _gauss_fit: the start parameters p0
    solver,               \* _gauss_fit: what curve_fit did
    optimal_parameter,    \* _gauss_fit: the returned parameters
    fit,                  \* gauss_fit: offset, amplitude, center, standard_deviation
    threshold,            \* get_good_region_profile arguments, <<num, den>>
    gfscale,
    index_maximum,        \* get_good_region_profile locals
    index_start,
    index_end,
    region                \* get_good_region_profile: the returned pair

vars == <<pc, raised, axis, item, index, center, standard_deviation, scaling,
          number_of_slices, index_center, n_pixel_half_slice, start_index,
          end_index, list_slices_indexes, slice_length, counter_slices, image,
          background_image, original_image, profile, seed, solver, optimal_parameter, fit,
          threshold, gfscale, index_maximum, index_start, index_end, region>>

fiVars == <<item, index>>
csVars == <<center, standard_deviation, scaling, number_of_slices, index_center,
            n_pixel_half_slice, start_index, end_index, list_slices_indexes,
            slice_length, counter_slices>>
sbVars == <<image, background_image, original_image>>
gfVars == <<seed, solver, optimal_parameter, fit>>
grVars == <<threshold, gfscale, index_maximum, index_start, index_end, region>>

-----------------------------------------------------------------------------
(* Bounds of the model *)

MaxVal == 5          \* find_index: axis values are drawn from 0..MaxVal
MaxLen == 4          \* find_index: an axis has 2..MaxLen elements
ItemDen == 2         \* find_index: items are the multiples of 1/ItemDen
SliceMaxVal == 6     \* calculate_slices: axis values are drawn from 0..SliceMaxVal
MaxDeviation == 6    \* calculate_slices: standard_deviation is in 0..MaxDeviation
MaxSlices == 5       \* calculate_slices: number_of_slices is in 0..MaxSlices
MaxPixel == 2        \* subtract_background: small pixel values are 0..MaxPixel
MaxPixels == 2       \* subtract_background: an image has 1..MaxPixels pixels
FitMaxVal == 2       \* gauss_fit: profile and axis values are in 0..FitMaxVal
FitMaxLen == 3       \* gauss_fit: profile and axis have 1..FitMaxLen elements
RegionMaxVal == 2    \* get_good_region_profile: profile values are in 0..RegionMaxVal
RegionMaxLen == 6    \* get_good_region_profile: a profile has 1..RegionMaxLen elements

-----------------------------------------------------------------------------
(* Constants of the program *)

DefaultScaling == 2  \* calculate_slices(..., scaling=2, ...)
Word == 65536        \* the number of values of "uint16"

-----------------------------------------------------------------------------
(* Python / numpy primitives *)

None == "None"

At(s, i) == s[i + 1]

Last(s) == s[Len(s)]

Abs(x) == IF x < 0 THEN -x ELSE x

\* exact comparison of a fraction <<num, den>>, den > 0, with an integer
FracLT(f, a) == f[1] < a * f[2]
FracGT(f, a) == f[1] > a * f[2]
FracEQ(f, a) == f[1] = a * f[2]

FracNeg(f) == <<-f[1], f[2]>>

\* -axis
Negated(a) == [i \in DOMAIN a |-> -a[i]]

\* numpy.searchsorted(a, v), side='left', on an ascending a: the number of
\* elements strictly below v, which is the first index i with a[i] >= v.
SearchSorted(a, v) == Cardinality({i \in DOMAIN a : FracGT(v, a[i])})

-----------------------------------------------------------------------------
(* find_index *)

\* faulty variant: the descending branch given the ascending branch's "previous section"
DescendingPrevious(a, v) ==
    IF FracGT(v, At(a, 0)) THEN 0
    ELSE IF FracLT(v, Last(a)) THEN Len(a) - 1
    ELSE LET insert_index == SearchSorted(Negated(a), FracNeg(v))
         IN  IF insert_index < Len(a) /\ FracEQ(v, At(a, insert_index))
             THEN insert_index
             ELSE insert_index - 1

\* faulty variant: the descending branch with the ascending comparisons
DescendingWrongClamp(a, v) ==
    IF FracLT(v, At(a, 0)) THEN 0
    ELSE IF FracGT(v, Last(a)) THEN Len(a) - 1
    ELSE SearchSorted(Negated(a), FracNeg(v))

\* Descending order -> [9, 8, 7, 6]
Descending(a, v) ==
    IF FracGT(v, At(a, 0)) THEN 0
    ELSE IF FracLT(v, Last(a)) THEN Len(a) - 1
    ELSE SearchSorted(Negated(a), FracNeg(v))

\* faulty variant: the equal-value test dropped
AscendingAlwaysPrevious(a, v) ==
    IF FracLT(v, At(a, 0)) THEN 0
    ELSE IF FracGT(v, Last(a)) THEN Len(a) - 1
    ELSE SearchSorted(a, v) - 1

\* Ascending order -> [6, 7, 8, 9]
Ascending(a, v) ==
    IF FracLT(v, At(a, 0)) THEN 0
    ELSE IF FracGT(v, Last(a)) THEN Len(a) - 1
    ELSE LET insert_index == SearchSorted(a, v)
         IN  IF insert_index < Len(a) /\ FracEQ(v, At(a, insert_index))
             THEN insert_index
             ELSE insert_index - 1

FindIndex(a, v) ==
    LET left_bigger_right == At(a, 0) > At(a, 1)
    IN  IF left_bigger_right THEN Descending(a, v) ELSE Ascending(a, v)

-----------------------------------------------------------------------------
(* Axes: strictly ascending or strictly descending sequences *)

RECURSIVE SortedSeq(_)
SortedSeq(S) ==
    IF S = {} THEN <<>>
    ELSE LET m == CHOOSE x \in S : \A y \in S : x <= y
         IN  <<m>> \o SortedSeq(S \ {m})

Reversed(s) == [i \in DOMAIN s |-> s[Len(s) + 1 - i]]

IsAscending(a) == \A i \in 1..(Len(a) - 1) : a[i] < a[i + 1]
IsDescending(a) == \A i \in 1..(Len(a) - 1) : a[i] > a[i + 1]

AxesOver(maxval, minlen, maxlen) ==
    LET asc == {SortedSeq(S) : S \in {T \in SUBSET (0..maxval) :
                                        /\ Cardinality(T) >= minlen
                                        /\ Cardinality(T) <= maxlen}}
    IN  asc \cup {Reversed(a) : a \in asc}

-----------------------------------------------------------------------------
(* Variables a call does not use *)

NoFindIndex == item = <<0, 1>> /\ index = None
NoSlices ==
    /\ center = 0 /\ standard_deviation = 0 /\ scaling = 0
    /\ number_of_slices = 0 /\ index_center = None
    /\ n_pixel_half_slice = None /\ start_index = None /\ end_index = None
    /\ list_slices_indexes = <<>> /\ slice_length = None
    /\ counter_slices = None
NoBackground ==
    image = None /\ background_image = None /\ original_image = None
NoGauss == seed = None /\ solver = None /\ optimal_parameter = None /\ fit = None
NoRegion ==
    /\ threshold = <<0, 1>> /\ gfscale = <<0, 1>> /\ index_maximum = None
    /\ index_start = None /\ index_end = None /\ region = None

-----------------------------------------------------------------------------
(* Specification of find_index *)

FindIndexInit ==
    /\ pc = "find_index"
    /\ raised = None
    /\ axis \in AxesOver(MaxVal, 2, MaxLen)
    /\ item \in {<<n, ItemDen>> : n \in (-ItemDen)..((MaxVal + 1) * ItemDen)}
    /\ index = None
    /\ profile = <<>>
    /\ NoSlices /\ NoBackground /\ NoGauss /\ NoRegion

FindIndexCall ==
    /\ pc = "find_index"
    /\ index' = FindIndex(axis, item)
    /\ pc' = "done"
    /\ UNCHANGED <<raised, axis, item, profile>>
    /\ UNCHANGED <<csVars, sbVars, gfVars, grVars>>

FindIndexNext == FindIndexCall

SpecFindIndex == FindIndexInit /\ [][FindIndexNext]_vars

-----------------------------------------------------------------------------
(* calculate_slices *)

\* faulty variant: the parity test inverted
OddIsRejected(n) == n % 2 = 1

\* number_of_slices % 2 == 0
EvenIsRejected(n) == n % 2 = 0

\* size_slice = scaling * standard_deviation / number_of_slices, a fraction
SizeSlice(sc, sd, n) == <<sc * sd, n>>

\* center + size_slice / 2, a fraction
HalfSliceItem(c, size) == <<c * 2 * size[2] + size[1], 2 * size[2]>>

\* faulty variant: the default of one pixel dropped
HalfSliceUnfloored(a, c, size) ==
    Abs(FindIndex(a, HalfSliceItem(c, size)) - FindIndex(a, <<c, 1>>))

\* n_pixel_half_slice, with its default of one pixel
HalfSlicePixels(a, c, size) ==
    LET index_half_slice == FindIndex(a, HalfSliceItem(c, size))
        half == Abs(index_half_slice - FindIndex(a, <<c, 1>>))
    IN  IF half < 1 THEN 1 ELSE half

\* faulty variant: the end of the axis taken one element too far
OutOfRangeOffByOne(s, e, n) == s < 0 \/ e > n

\* start_index < 0 or end_index >= number_of_elements_axis
OutOfRange(s, e, n) == s < 0 \/ e >= n

\* start_index >= 0 and end_index < number_of_elements_axis
MiddleSliceFits(s, e, n) == s >= 0 /\ e < n

CalculateSlicesInit ==
    /\ pc = "calculate_slices"
    /\ raised = None
    /\ axis \in AxesOver(SliceMaxVal, 2, SliceMaxVal + 1)
    /\ center \in (-1)..(SliceMaxVal + 1)
    /\ standard_deviation \in 0..MaxDeviation
    /\ scaling \in 1..DefaultScaling
    /\ number_of_slices \in 0..MaxSlices
    /\ index_center = None /\ n_pixel_half_slice = None
    /\ start_index = None /\ end_index = None
    /\ list_slices_indexes = <<>> /\ slice_length = None
    /\ counter_slices = None
    /\ profile = <<>>
    /\ NoFindIndex /\ NoBackground /\ NoGauss /\ NoRegion

\* the body of calculate_slices up to the loop over the outer slices
CalculateSlicesBegin ==
    /\ pc = "calculate_slices"
    /\ IF EvenIsRejected(number_of_slices)
       THEN /\ raised' = "ValueError"
            /\ pc' = "done"
            /\ UNCHANGED <<index_center, n_pixel_half_slice, start_index,
                           end_index, list_slices_indexes, slice_length,
                           counter_slices>>
       ELSE LET size_slice == SizeSlice(scaling, standard_deviation,
                                        number_of_slices)
                c == FindIndex(axis, <<center, 1>>)
                h == HalfSlicePixels(axis, center, size_slice)
                s == c - h
                e == c + h
            IN  /\ index_center' = c
                /\ n_pixel_half_slice' = h
                /\ start_index' = s
                /\ end_index' = e
                /\ raised' = None
                /\ IF MiddleSliceFits(s, e, Len(axis))
                   THEN /\ list_slices_indexes' = <<s, e>>
                        /\ slice_length' = Abs(At(axis, s) - At(axis, e))
                        /\ counter_slices' = number_of_slices - 1
                        /\ pc' = "outer_slices"
                   ELSE /\ list_slices_indexes' = <<>>
                        /\ slice_length' = None
                        /\ counter_slices' = None
                        /\ pc' = "done"
    /\ UNCHANGED <<axis, center, standard_deviation, scaling, number_of_slices,
                   profile>>
    /\ UNCHANGED <<fiVars, sbVars, gfVars, grVars>>

\* one test of "while counter_slices > 0" and, when it holds, one iteration
OuterSlices ==
    /\ pc = "outer_slices"
    /\ IF counter_slices > 0
       THEN LET n_pixel_slice == 2 * n_pixel_half_slice
                s == start_index - n_pixel_slice
                e == end_index + n_pixel_slice
            IN  /\ start_index' = s
                /\ end_index' = e
                /\ IF OutOfRange(s, e, Len(axis))
                   THEN /\ pc' = "done"
                        /\ UNCHANGED <<list_slices_indexes, counter_slices>>
                   ELSE /\ list_slices_indexes' =
                               <<s>> \o list_slices_indexes \o <<e>>
                        /\ counter_slices' = counter_slices - 2
                        /\ pc' = "outer_slices"
       ELSE /\ pc' = "done"
            /\ UNCHANGED <<start_index, end_index, list_slices_indexes,
                           counter_slices>>
    /\ UNCHANGED <<raised, axis, center, standard_deviation, scaling,
                   number_of_slices, index_center, n_pixel_half_slice,
                   slice_length, profile>>
    /\ UNCHANGED <<fiVars, sbVars, gfVars, grVars>>

CalculateSlicesNext == CalculateSlicesBegin \/ OuterSlices

SpecCalculateSlices == CalculateSlicesInit /\ [][CalculateSlicesNext]_vars

-----------------------------------------------------------------------------
(* subtract_background *)

\* array.astype("uint16") of an integer array: each value modulo 2^16
AsTypeUint16(data) == [i \in DOMAIN data |-> data[i] % Word]

\* a value stored into an array of the given dtype
Stored(dtype, x) == IF dtype = "uint16" THEN x % Word ELSE x

\* background_image > image, element by element
MaskForZeros(bg, img) == [i \in DOMAIN img |-> bg[i] > img[i]]

\* numpy.subtract(image, background_image.astype("uint16"), image) followed by
\* image[mask_for_zeros] = 0
Subtracted(dtype, img, bg) ==
    LET mask_for_zeros == MaskForZeros(bg, img)
        bg16 == AsTypeUint16(bg)
    IN  [i \in DOMAIN img |->
            IF mask_for_zeros[i] THEN 0 ELSE Stored(dtype, img[i] - bg16[i])]

\* the pixel values an integer dtype can hold that the model draws from
PixelValues(dtype) ==
    IF dtype = "uint16"
    THEN (0..MaxPixel) \cup {Word - 1}
    ELSE (0..MaxPixel) \cup {Word - 1, Word, Word + MaxPixel}

\* a background is an image recorded earlier: no negative values
BackgroundValues == (0..MaxPixel) \cup {Word - 1, Word, Word + 1}

ArraysOf(values) ==
    UNION {[1..n -> values] : n \in 1..MaxPixels}

SubtractBackgroundInit ==
    /\ pc = "subtract_background"
    /\ raised = None
    /\ \E dtype \in {"uint16", "int64"} :
           \E data \in ArraysOf(PixelValues(dtype)) :
               /\ image = [dtype |-> dtype, data |-> data]
               /\ original_image = data
    /\ \E data \in ArraysOf(BackgroundValues) :
           background_image = [dtype |-> "int64", data |-> data]
    /\ axis = <<>> /\ profile = <<>>
    /\ NoFindIndex /\ NoSlices /\ NoGauss /\ NoRegion

SubtractBackground ==
    /\ pc = "subtract_background"
    /\ IF Len(image.data) # Len(background_image.data)
       THEN /\ raised' = "RuntimeError"
            /\ image' = image
       ELSE /\ raised' = None
            /\ image' = [image EXCEPT !.data =
                             Subtracted(image.dtype, image.data,
                                        background_image.data)]
    /\ pc' = "done"
    /\ UNCHANGED <<background_image, original_image, axis, profile>>
    /\ UNCHANGED <<fiVars, csVars, gfVars, grVars>>

SubtractBackgroundNext == SubtractBackground

SpecSubtractBackground ==
    SubtractBackgroundInit /\ [][SubtractBackgroundNext]_vars

-----------------------------------------------------------------------------
(* Profiles *)

ProfilesOver(maxval, maxlen) == UNION {[1..n -> 0..maxval] : n \in 1..maxlen}

\* profile.min(), profile.max()
Minimum(p) == CHOOSE x \in {p[i] : i \in DOMAIN p} : \A j \in DOMAIN p : x <= p[j]
Maximum(p) == CHOOSE x \in {p[i] : i \in DOMAIN p} : \A j \in DOMAIN p : x >= p[j]

\* profile.argmax(): the first index of the maximum, 0-based
ArgMax(p) ==
    (CHOOSE i \in DOMAIN p :
        /\ p[i] = Maximum(p)
        /\ \A j \in 1..(i - 1) : p[j] # Maximum(p)) - 1

-----------------------------------------------------------------------------
(* gauss_fit and _gauss_fit *)

\* A standard deviation is kept as <<num, den>>, the value
\* num / (den * sqrt(2 * pi)); den = 0 is the float nan, the result of 0 / 0.
NaN == <<0, 0>>
IsNaN(sd) == sd[2] = 0
IsNegative(sd) == sd[2] > 0 /\ sd[1] < 0

\* abs(standard_deviation); abs(nan) is nan
AbsDeviation(sd) == <<Abs(sd[1]), sd[2]>>

\* 2 * numpy.trapz(y, x=axis)
RECURSIVE TwiceTrapz(_, _, _)
TwiceTrapz(y, x, i) ==
    IF i >= Len(y) THEN 0
    ELSE (x[i + 1] - x[i]) * (y[i] + y[i + 1]) + TwiceTrapz(y, x, i + 1)

\* the start parameters of the fit
SeedOf(p, a) ==
    LET offset == Minimum(p)
        amplitude == Maximum(p) - offset
        twice_surface == TwiceTrapz([i \in DOMAIN p |-> p[i] - offset], a, 1)
    IN  [offset |-> offset,
         amplitude |-> amplitude,
         center |-> At(a, ArgMax(p)),
         standard_deviation |->
             IF amplitude = 0 THEN NaN ELSE <<twice_surface, 2 * amplitude>>]

\* what scipy.optimize.curve_fit can raise: no convergence (RuntimeError), bad
\* input (ValueError, TypeError), or an interrupt
SolverErrors == {"RuntimeError", "ValueError", "TypeError", "KeyboardInterrupt"}

\* the parameters the solver can return
SolverResults ==
    [offset : {0}, amplitude : {1}, center : {0, 1},
     standard_deviation : {<<-1, 1>>, <<1, 1>>, NaN}]

\* faulty variant: except RuntimeError
CaughtIfRuntimeError(e) == e = "RuntimeError"

\* except BaseException
Caught(e) == TRUE

\* abs(standard_deviation) in the return of gauss_fit
ReturnedDeviation(sd) == AbsDeviation(sd)

GaussFitInit ==
    /\ pc = "gauss_fit"
    /\ raised = None
    /\ profile \in ProfilesOver(FitMaxVal, FitMaxLen)
    /\ axis \in AxesOver(FitMaxVal, 1, FitMaxLen)
    /\ seed = None /\ solver = None /\ optimal_parameter = None /\ fit = None
    /\ NoFindIndex /\ NoSlices /\ NoBackground /\ NoRegion

\* gauss_fit up to the call of curve_fit: the shape test and the seeds.  The
\* moments center_of_mass and rms are numpy divisions, which warn and do not
\* raise; no claim reads them and they are left out of the state.
GaussFitSeed ==
    /\ pc = "gauss_fit"
    /\ IF Len(axis) # Len(profile)
       THEN raised' = "RuntimeError" /\ pc' = "done" /\ seed' = seed
       ELSE raised' = None /\ pc' = "curve_fit" /\ seed' = SeedOf(profile, axis)
    /\ UNCHANGED <<axis, profile, solver, optimal_parameter, fit>>
    /\ UNCHANGED <<fiVars, csVars, sbVars, grVars>>

CurveFitConverges ==
    /\ pc = "curve_fit"
    /\ \E r \in SolverResults : optimal_parameter' = r
    /\ solver' = "converged"
    /\ pc' = "return"
    /\ UNCHANGED <<raised, axis, profile, seed, fit>>
    /\ UNCHANGED <<fiVars, csVars, sbVars, grVars>>

CurveFitRaises ==
    /\ pc = "curve_fit"
    /\ \E e \in SolverErrors :
           IF Caught(e)
           THEN /\ optimal_parameter' = seed
                /\ solver' = "raised"
                /\ pc' = "return"
                /\ raised' = None
           ELSE /\ optimal_parameter' = optimal_parameter
                /\ solver' = "raised"
                /\ pc' = "done"
                /\ raised' = e
    /\ UNCHANGED <<axis, profile, seed, fit>>
    /\ UNCHANGED <<fiVars, csVars, sbVars, grVars>>

GaussFitReturn ==
    /\ pc = "return"
    /\ fit' = [offset |-> optimal_parameter.offset,
               amplitude |-> optimal_parameter.amplitude,
               center |-> optimal_parameter.center,
               standard_deviation |->
                   ReturnedDeviation(optimal_parameter.standard_deviation)]
    /\ pc' = "done"
    /\ UNCHANGED <<raised, axis, profile, seed, solver, optimal_parameter>>
    /\ UNCHANGED <<fiVars, csVars, sbVars, grVars>>

GaussFitNext ==
    GaussFitSeed \/ CurveFitConverges \/ CurveFitRaises \/ GaussFitReturn

SpecGaussFit == GaussFitInit /\ [][GaussFitNext]_vars

-----------------------------------------------------------------------------
(* get_good_region_profile *)

\* threshold=0.3 and gfscale=1.8, the defaults, and gfscale=1, as fractions
DefaultThreshold == <<3, 10>>
DefaultGfscale == <<18, 10>>
UnitGfscale == <<10, 10>>

\* profile[i] < threshold_value, where
\* threshold_value = (profile.max() - profile_min) * threshold + profile_min
BelowThreshold(p, i, thr) ==
    At(p, i) * thr[2] <
        (Maximum(p) - Minimum(p)) * thr[1] + Minimum(p) * thr[2]

\* range(index_maximum, 0, -1)
LeftScanRange(m) == {i \in 0..m : i > 0}

\* range(index_maximum, profile.shape[0])
RightScanRange(m, n) == m..(n - 1)

\* the first loop: the first index of the range, going down, below threshold
ScanLeft(p, m, thr) ==
    LET below == {i \in LeftScanRange(m) : BelowThreshold(p, i, thr)}
    IN  IF below = {} THEN m
        ELSE CHOOSE i \in below : \A j \in below : j <= i

\* the second loop: the first index of the range, going up, below threshold
ScanRight(p, m, thr) ==
    LET below == {i \in RightScanRange(m, Len(p)) : BelowThreshold(p, i, thr)}
    IN  IF below = {} THEN m
        ELSE CHOOSE i \in below : \A j \in below : i <= j

\* int(x) of a fraction: truncation toward zero
IntOf(f) ==
    IF f[1] >= 0 THEN f[1] \div f[2] ELSE -((-f[1]) \div f[2])

\* gf_extend / 2 = ((end - start) * gfscale - (end - start)) / 2, a fraction
HalfExtend(s, e, gf) == <<(e - s) * (gf[1] - gf[2]), 2 * gf[2]>>

\* index_start -= gf_extend / 2, clamped at 0 and converted with int()
ExtendedStart(s, e, gf) ==
    LET half == HalfExtend(s, e, gf)
        start == <<s * half[2] - half[1], half[2]>>
    IN  IF start[1] > 0 THEN IntOf(start) ELSE 0

\* index_end += gf_extend / 2, clamped at profile.size - 1 and converted
ExtendedEnd(s, e, gf, size) ==
    LET half == HalfExtend(s, e, gf)
        end == <<e * half[2] + half[1], half[2]>>
    IN  IF end[1] < (size - 1) * end[2] THEN IntOf(end) ELSE size - 1

GoodRegionInit ==
    /\ pc = "get_good_region_profile"
    /\ raised = None
    /\ profile \in ProfilesOver(RegionMaxVal, RegionMaxLen)
    /\ threshold = DefaultThreshold
    /\ gfscale \in {DefaultGfscale, UnitGfscale}
    /\ index_maximum = None /\ index_start = None /\ index_end = None
    /\ region = None
    /\ axis = <<>>
    /\ NoFindIndex /\ NoSlices /\ NoBackground /\ NoGauss

\* the two loops from the maximum: the core span
GoodRegionScan ==
    /\ pc = "get_good_region_profile"
    /\ index_maximum' = ArgMax(profile)
    /\ index_start' = ScanLeft(profile, ArgMax(profile), threshold)
    /\ index_end' = ScanRight(profile, ArgMax(profile), threshold)
    /\ pc' = "extend"
    /\ UNCHANGED <<raised, axis, profile, threshold, gfscale, region>>
    /\ UNCHANGED <<fiVars, csVars, sbVars, gfVars>>

\* the extension by gfscale, the clamps and the return
GoodRegionExtend ==
    /\ pc = "extend"
    /\ region' = <<ExtendedStart(index_start, index_end, gfscale),
                   ExtendedEnd(index_start, index_end, gfscale, Len(profile))>>
    /\ pc' = "done"
    /\ UNCHANGED <<raised, axis, profile, threshold, gfscale, index_maximum,
                   index_start, index_end>>
    /\ UNCHANGED <<fiVars, csVars, sbVars, gfVars>>

GoodRegionNext == GoodRegionScan \/ GoodRegionExtend

SpecGoodRegion == GoodRegionInit /\ [][GoodRegionNext]_vars

-----------------------------------------------------------------------------
(* Claims about find_index *)

Returned == pc = "done" /\ raised = None

ItemInRange ==
    IF IsAscending(axis)
    THEN ~FracLT(item, At(axis, 0)) /\ ~FracGT(item, Last(axis))
    ELSE ~FracGT(item, At(axis, 0)) /\ ~FracLT(item, Last(axis))

ItemOnAxis == \E i \in DOMAIN axis : FracEQ(item, axis[i])

\* C1: on a strictly ascending axis and a value within the axis range, the
\* returned index is the greatest index whose axis value does not exceed the
\* value; an exact match returns its own index.
C1_AscendingFloor ==
    (Returned /\ IsAscending(axis) /\ ItemInRange) =>
        /\ index \in 0..(Len(axis) - 1)
        /\ ~FracLT(item, At(axis, index))
        /\ \A j \in (index + 1)..(Len(axis) - 1) : FracLT(item, At(axis, j))

C1_Witness ==
    /\ Returned /\ IsAscending(axis) /\ ItemInRange /\ ~ItemOnAxis
    /\ index >= 1 /\ index < Len(axis) - 1

\* C2 as stated: on a strictly descending axis and a value within the axis
\* range, an exact match returns its own index and any other value returns the
\* index one below the insertion point, the greatest index whose axis value
\* is at least the value.
C2_DescendingGreatestAtLeast ==
    (Returned /\ IsDescending(axis) /\ ItemInRange) =>
        /\ index \in 0..(Len(axis) - 1)
        /\ ~FracGT(item, At(axis, index))
        /\ \A j \in (index + 1)..(Len(axis) - 1) : FracGT(item, At(axis, j))

\* C2 as amended: on a strictly descending axis and a value within the axis
\* range, the returned index is the insertion point itself, the smallest
\* index whose axis value does not exceed the value (so the axis value at the
\* returned index is the largest axis value not exceeding the value, as on an
\* ascending axis); an exact match returns its own index.
C2_DescendingSmallestAtMost ==
    (Returned /\ IsDescending(axis) /\ ItemInRange) =>
        /\ index \in 0..(Len(axis) - 1)
        /\ ~FracLT(item, At(axis, index))
        /\ \A j \in 0..(index - 1) : FracLT(item, At(axis, j))

C2_Witness ==
    /\ Returned /\ IsDescending(axis) /\ ItemInRange /\ ~ItemOnAxis
    /\ index >= 2 /\ FracGT(item, At(axis, index))

\* C3: a value outside the axis range is clamped by direction (ascending:
\* below the first value gives 0, above the last gives len-1; descending:
\* above the first value gives 0, below the last gives len-1), and every
\* returned index lies in 0..len-1.
C3_Clamp ==
    Returned =>
        /\ index \in 0..(Len(axis) - 1)
        /\ (IsAscending(axis) /\ FracLT(item, At(axis, 0))) => index = 0
        /\ (IsAscending(axis) /\ FracGT(item, Last(axis))) => index = Len(axis) - 1
        /\ (IsDescending(axis) /\ FracGT(item, At(axis, 0))) => index = 0
        /\ (IsDescending(axis) /\ FracLT(item, Last(axis))) => index = Len(axis) - 1

C3_Witness ==
    /\ Returned /\ IsDescending(axis) /\ Len(axis) >= 3
    /\ FracLT(item, Last(axis)) /\ index = Len(axis) - 1

-----------------------------------------------------------------------------
(* Claims about calculate_slices *)

OddSlices == number_of_slices % 2 = 1

\* C4: for an odd number_of_slices the boundary list has even length, is
\* strictly increasing and holds only indexes of the axis, before the loop
\* over the outer slices, after each of its iterations and when it has
\* stopped, early or not.
C4_BoundariesWellFormed ==
    /\ Len(list_slices_indexes) % 2 = 0
    /\ \A i \in 1..(Len(list_slices_indexes) - 1) :
           list_slices_indexes[i] < list_slices_indexes[i + 1]
    /\ \A i \in DOMAIN list_slices_indexes :
           list_slices_indexes[i] >= 0 /\ list_slices_indexes[i] < Len(axis)

\* the loop stopped early with outer slices already accepted
C4_Witness ==
    /\ pc = "done" /\ OddSlices /\ Len(list_slices_indexes) >= 4
    /\ counter_slices > 0

\* the centre index and the half slice width as the claim defines them
ClaimCenter == FindIndex(axis, <<center, 1>>)
ClaimHalf ==
    LET d == Abs(FindIndex(axis, <<center * 2 * number_of_slices
                                     + scaling * standard_deviation,
                                   2 * number_of_slices>>) - ClaimCenter)
    IN  IF d > 1 THEN d ELSE 1

\* k outward pairs around a middle slice c-h..c+h fit the axis
PairsFit(k, c, h) ==
    /\ 2 * k <= number_of_slices - 1
    /\ c - (2 * k + 1) * h >= 0
    /\ c + (2 * k + 1) * h <= Len(axis) - 1

\* C5: with c the index of center and h the half slice width (at least 1),
\* the result is empty, with no slice_length and no error, when the middle
\* slice c-h..c+h leaves the axis; otherwise it is c-(2k+1)h, ..., c+(2k+1)h
\* in steps of 2h for the largest k <= (N-1)/2 that keeps both ends on the
\* axis.
C5_ResultShape ==
    (Returned /\ OddSlices) =>
        LET c == ClaimCenter
            h == ClaimHalf
        IN  /\ n_pixel_half_slice = h
            /\ IF ~PairsFit(0, c, h)
               THEN list_slices_indexes = <<>> /\ slice_length = None
               ELSE LET k == CHOOSE n \in 0..number_of_slices :
                                 /\ PairsFit(n, c, h)
                                 /\ \A m \in (n + 1)..number_of_slices :
                                        ~PairsFit(m, c, h)
                    IN  list_slices_indexes =
                            [j \in 1..(2 * k + 2) |->
                                c - (2 * k + 1) * h + (j - 1) * 2 * h]

\* a truncated result of a slice wider than the default pixel
C5_Witness ==
    /\ Returned /\ OddSlices /\ n_pixel_half_slice >= 2
    /\ Len(list_slices_indexes) = 2 /\ number_of_slices >= 3

\* C6: the call raises exactly when number_of_slices is even, and then before
\* it has computed anything; for an odd number_of_slices no step raises, and
\* the count of slices still to add stays even and never drops below zero,
\* so that the loop ends and the call returns.
C6_RaisesOnlyOnEven ==
    /\ pc # "calculate_slices" =>
           (raised = "ValueError") <=> (number_of_slices % 2 = 0)
    /\ raised \in {None, "ValueError"}
    /\ raised # None =>
           /\ index_center = None /\ n_pixel_half_slice = None
           /\ start_index = None /\ end_index = None
           /\ list_slices_indexes = <<>> /\ slice_length = None
           /\ counter_slices = None
    /\ (pc = "outer_slices" /\ number_of_slices % 2 = 1) =>
           counter_slices >= 0 /\ counter_slices % 2 = 0

C6_Witness ==
    /\ pc = "done" /\ raised = "ValueError" /\ number_of_slices >= 2
    /\ index_center = None

-----------------------------------------------------------------------------
(* Claims about subtract_background *)

\* C7: for integer images and backgrounds of equal shape every entry of the
\* result is max(A[i] - B[i], 0): zero where the background exceeds the
\* image and the difference elsewhere, never negative and never wrapped.
C7_ClampedDifference ==
    Returned =>
        \A i \in DOMAIN image.data :
            image.data[i] =
                IF background_image.data[i] > original_image[i]
                THEN 0
                ELSE original_image[i] - background_image.data[i]

\* What does hold: on a uint16 image the result is the clamped difference,
\* because a background value beyond uint16 always exceeds the image value.
Uint16ImageClampedDifference ==
    Returned =>
        (image.dtype = "uint16" =>
            \A i \in DOMAIN image.data :
                image.data[i] =
                    IF background_image.data[i] > original_image[i]
                    THEN 0
                    ELSE original_image[i] - background_image.data[i])

-----------------------------------------------------------------------------
(* Claims about gauss_fit *)

-----------------------------------------------------------------------------
(* Claims about get_good_region_profile *)

\* the indexes below the threshold at or left, and at or right, of the maximum
BelowOnLeft ==
    {i \in 0..ArgMax(profile) : BelowThreshold(profile, i, threshold)}
BelowOnRight ==
    {i \in ArgMax(profile)..(Len(profile) - 1) :
        BelowThreshold(profile, i, threshold)}

\* the threshold crossings next to the maximum, index 0 included
LeftCrossing ==
    IF BelowOnLeft = {} THEN ArgMax(profile)
    ELSE CHOOSE i \in BelowOnLeft : \A j \in BelowOnLeft : j <= i
RightCrossing ==
    IF BelowOnRight = {} THEN ArgMax(profile)
    ELSE CHOOSE i \in BelowOnRight : \A j \in BelowOnRight : i <= j

\* C9: with gfscale = 1 the returned start is the nearest index at or left of
\* the maximum, index 0 included, whose value is below the threshold, and the
\* maximum's index only if there is none; the returned end is the nearest
\* such index at or right of the maximum, and the maximum's index only if
\* there is none.
C9_CoreSpan ==
    (Returned /\ gfscale = UnitGfscale) =>
        region[1] = LeftCrossing /\ region[2] = RightCrossing

\* C10: with the default threshold and gfscale, on a profile with a sample
\* below the threshold on each side of its maximum, the returned pair
\* satisfies 0 <= start < argmax < end <= len-1 and spans strictly more than
\* the span between the two threshold crossings, unless the returned pair
\* lies on a bound of the clamp.
C10_RegionAroundMaximum ==
    (/\ Returned
     /\ threshold = DefaultThreshold /\ gfscale = DefaultGfscale
     /\ BelowOnLeft # {} /\ BelowOnRight # {}) =>
        /\ 0 <= region[1]
        /\ region[1] < ArgMax(profile)
        /\ ArgMax(profile) < region[2]
        /\ region[2] <= Len(profile) - 1
        /\ \/ region[2] - region[1] > RightCrossing - LeftCrossing
           \/ region[1] = 0
           \/ region[2] = Len(profile) - 1

\* What does hold: the returned pair spans strictly more than the span the
\* two loops found, under the premises of C10.
RegionWiderThanScannedSpan ==
    (/\ Returned
     /\ threshold = DefaultThreshold /\ gfscale = DefaultGfscale
     /\ BelowOnLeft # {} /\ BelowOnRight # {}) =>
        region[2] - region[1] > index_end - index_start

====
